---- MODULE Spec2Model ----
\* CPX monitoring tool (cpx_monitor_tool/monitor_cpx.py): the refresh cycle of
\* CPXMonitor, its health classification, the per-service reports, the
\* underprovisioning detection with its two Slack dispatches, the continuous
\* tracking loop and the terminal dashboard loop.
\*
\* An instance identifier i stands for the address "10.58.1.i".  A percentage
\* string such as "85%" is the sequence of its characters <<"8","5","%">>.
\* A Python dict is a function; the empty dict {} is the function with the
\* empty domain.
EXTENDS Integers, Sequences, FiniteSets, TLC

\* ---------------------------------------------------------------- bounds
MaxServers == 3      \* length of the inventory list
MaxCycles  == 2      \* refresh cycles of one tracking / dashboard run
MaxEntries == 3      \* length of a list handed to auto_remediate_services
MaxPercent == 100    \* largest percentage of the classification sweep

\* ------------------------------------------------------ program constants
HealthLimit  == 90   \* cpu < 90 and memory < 90
ScaleTrigger == 80   \* cpu > 80 or memory > 80
Floor        == 2    \* count < 2
SysExitCode  == 0    \* sys.exit(0) in signal_handler
NormalExitCode == 0  \* exit status of an interpreter whose main() returned

\* ------------------------------------------------------ strings and int()
Digits == <<"0", "1", "2", "3", "4", "5", "6", "7", "8", "9">>

IsDigit(c) == \E i \in 1..10 : Digits[i] = c

DigitVal(c) == (CHOOSE i \in 1..10 : Digits[i] = c) - 1

\* the ValueError of int() on a string that is no decimal literal
ValueError == -1

\* the KeyError of stats['cpu'] on a response without that field
NoField == <<"<absent>">>

RECURSIVE DigitsValue(_)
DigitsValue(s) ==
    IF s = <<>> THEN 0
    ELSE 10 * DigitsValue(SubSeq(s, 1, Len(s) - 1)) + DigitVal(s[Len(s)])

\* int(s) for s over the alphabet of digits, "%" and letters
IntParse(s) ==
    IF s # <<>> /\ \A i \in 1..Len(s) : IsDigit(s[i])
    THEN DigitsValue(s) ELSE ValueError

\* s[:-1]
StripLast(s) == SubSeq(s, 1, Len(s) - 1)

\* s.rstrip('%')
RECURSIVE RStripPercent(_)
RStripPercent(s) ==
    IF s # <<>> /\ s[Len(s)] = "%"
    THEN RStripPercent(SubSeq(s, 1, Len(s) - 1)) ELSE s

\* str(n) of a natural number, as the wire format of the metrics endpoint
RECURSIVE FormatNat(_)
FormatNat(n) ==
    IF n < 10 THEN <<Digits[n + 1]>>
    ELSE Append(FormatNat(n \div 10), Digits[(n % 10) + 1])

\* "<n>%"
Pct(n) == Append(FormatNat(n), "%")

\* ------------------------------------------------------------ the inputs
Services == {"AuthService", "UserService"}

OkBody(service, cpu, memory) ==
    [kind |-> "ok", service |-> service, cpu |-> Pct(cpu), memory |-> Pct(memory)]

\* the well-formed metrics responses: healthy and unhealthy instances of one
\* service, and a healthy instance of another
OkResponses ==
    {OkBody("AuthService", 70, 50), OkBody("AuthService", 50, 30),
     OkBody("AuthService", 90, 50), OkBody("UserService", 70, 50)}

\* 2xx responses whose cpu or memory field is absent or no percentage
MalformedResponses ==
    {[kind |-> "ok", service |-> "AuthService", cpu |-> NoField, memory |-> Pct(50)],
     [kind |-> "ok", service |-> "AuthService", cpu |-> Pct(50),
      memory |-> <<"N", "/", "A">>]}

\* requests.get raising, or raise_for_status raising on a non-2xx response
FailureKinds == {"ConnectionError", "Timeout", "HTTPError"}

FailedResponses ==
    {[kind |-> k, service |-> "", cpu |-> <<>>, memory |-> <<>>] : k \in FailureKinds}

Responses == OkResponses \cup MalformedResponses \cup FailedResponses

\* service names handed to track --service; the last one names no instance
TrackTargets == {"AuthService", "PaymentService"}

\* outcomes of requests.post to the webhook
PostResults == {"ok", "ConnectionError", "HTTPError"}

EmptyDict == [i \in {} |-> 0]

Put(d, k, v) == [i \in (DOMAIN d) \cup {k} |-> IF i = k THEN v ELSE d[i]]

\* ------------------------------------------------- CPXMonitor.fetch_server_stats
\* faulty variant: the limit itself still counts as healthy
ClassifyInclusive(cpu, memory) ==
    IF cpu <= HealthLimit /\ memory <= HealthLimit THEN "Healthy" ELSE "Unhealthy"

Classify(cpu, memory) ==
    IF cpu < HealthLimit /\ memory < HealthLimit THEN "Healthy" ELSE "Unhealthy"

\* faulty variant: no except clause, a failed request propagates
fetch_server_stats_uncaught(ip, r) ==
    IF r.kind \in FailureKinds
    THEN [raised |-> r.kind, stats |-> EmptyDict]
    ELSE IF r.cpu = NoField \/ r.memory = NoField
    THEN [raised |-> "KeyError", stats |-> EmptyDict]
    ELSE IF IntParse(StripLast(r.cpu)) = ValueError
            \/ IntParse(StripLast(r.memory)) = ValueError
    THEN [raised |-> "ValueError", stats |-> EmptyDict]
    ELSE [raised |-> "",
          stats |-> [ip |-> ip, service |-> r.service, cpu |-> r.cpu,
                     memory |-> r.memory,
                     status |-> Classify(IntParse(StripLast(r.cpu)),
                                         IntParse(StripLast(r.memory)))]]

\* the result of fetch_server_stats(ip) on response r: the dict it returns and
\* the exception that leaves it ("" for a normal return)
fetch_server_stats(ip, r) ==
    IF r.kind \in FailureKinds
    THEN [raised |-> "", stats |-> EmptyDict]
    ELSE IF r.cpu = NoField
    THEN [raised |-> "KeyError", stats |-> EmptyDict]
    ELSE IF IntParse(StripLast(r.cpu)) = ValueError
    THEN [raised |-> "ValueError", stats |-> EmptyDict]
    ELSE IF r.memory = NoField
    THEN [raised |-> "KeyError", stats |-> EmptyDict]
    ELSE IF IntParse(StripLast(r.memory)) = ValueError
    THEN [raised |-> "ValueError", stats |-> EmptyDict]
    ELSE [raised |-> "",
          stats |-> [ip |-> ip, service |-> r.service, cpu |-> r.cpu,
                     memory |-> r.memory,
                     status |-> Classify(IntParse(StripLast(r.cpu)),
                                         IntParse(StripLast(r.memory)))]]

\* ------------------------------------------------------------------ state
VARIABLES
    inventory,          \* what GET {base}/servers answers at present
    servers,            \* self.servers
    server_stats,       \* self.server_stats
    last_update,        \* self.last_update: 0 is None, else the cycle that set it
    webhook,            \* what os.getenv('SLACK_WEBHOOK_URL') yields: "set" or "unset",
                        \* "unread" until the process has looked it up
    cmd,                \* the subcommand main() dispatched to
    pc,                 \* position of the main thread
    idx,                \* position of the for loop of update_all_stats
    exc,                \* the exception propagating out of the command, or ""
    outcome,            \* per instance, what it answered in the current cycle:
                        \* the body of its 2xx response, or [kind |-> "failed"]
    prev_ips,           \* the keys server_stats had when the current cycle began
    cycles,             \* refresh cycles started by the running command
    table_data,         \* the rows the running command built
    service_data,       \* the per-service accumulator of the running report
    services_to_scale,  \* the set auto_remediate_services built
    posts,              \* the requests.post calls made, with their results
    target,             \* service_name of track_service
    exit_code,          \* exit status of the process, -1 while it runs
    classified,         \* the stats of the last direct fetch_server_stats call
    view                \* what the dashboard loop handed to the live display

vars == <<inventory, servers, server_stats, last_update, webhook, cmd, pc, idx, exc,
          outcome, prev_ips, cycles, table_data, service_data, services_to_scale,
          posts, target, exit_code, classified, view>>

report == <<table_data, services_to_scale, posts>>

\* the lists the inventory endpoint can answer with
Inventories == {[i \in 1..n |-> i] : n \in 0..MaxServers}

\* the state main() is in after CPXMonitor.__init__: fetch_servers has stored
\* the inventory, or left servers empty on a failed listing
Init ==
    /\ inventory \in Inventories
    /\ servers \in {inventory, <<>>}
    /\ server_stats = EmptyDict
    /\ last_update = 0
    /\ webhook = "unread"
    /\ cmd = ""
    /\ pc = "main"
    /\ idx = 0
    /\ exc = ""
    /\ outcome = EmptyDict
    /\ prev_ips = {}
    /\ cycles = 0
    /\ table_data = <<>>
    /\ service_data = <<>>
    /\ services_to_scale = {}
    /\ posts = <<>>
    /\ target = ""
    /\ exit_code = -1
    /\ classified = EmptyDict
    /\ view = <<>>

\* --------------------------------------------------- CPXMonitor.update_all_stats
\* faulty variant: the snapshot is not reset, the cycle merges into it
UpdateBeginMerging ==
    /\ pc = "update"
    /\ outcome' = EmptyDict
    /\ prev_ips' = DOMAIN server_stats
    /\ idx' = 1
    /\ cycles' = cycles + 1
    /\ pc' = "fetch"
    /\ UNCHANGED <<servers, inventory, server_stats, last_update, webhook, cmd, exc,
                   report, service_data, target, exit_code, classified, view>>

\* line 216: self.server_stats = {}
UpdateBegin ==
    /\ pc = "update"
    /\ server_stats' = EmptyDict
    /\ outcome' = EmptyDict
    /\ prev_ips' = DOMAIN server_stats
    /\ idx' = 1
    /\ cycles' = cycles + 1
    /\ pc' = "fetch"
    /\ UNCHANGED <<servers, inventory, last_update, webhook, cmd, exc, report, service_data, target,
                   exit_code, classified, view>>

\* where an exception leaving update_all_stats lands
AfterRaise == IF cmd = "dashboard" THEN "refresh_failed" ELSE "crashed"

\* what the instance answered, as the history variable outcome keeps it
Answer(r) == IF r.kind \in FailureKinds THEN [kind |-> "failed"] ELSE r

\* lines 217-220: one iteration of the for loop
UpdateFetch ==
    /\ pc = "fetch"
    /\ idx <= Len(servers)
    /\ \E r \in Responses :
        LET ip  == servers[idx]
            res == fetch_server_stats(ip, r)
        IN /\ outcome' = Put(outcome, ip, Answer(r))
           /\ IF res.raised # ""
              THEN /\ exc' = IF cmd = "dashboard" THEN "" ELSE res.raised
                   /\ pc' = AfterRaise
                   /\ exit_code' = IF cmd = "dashboard" THEN exit_code ELSE 1
                   /\ UNCHANGED <<server_stats, idx>>
              ELSE /\ server_stats' = IF res.stats # EmptyDict
                                      THEN Put(server_stats, ip, res.stats)
                                      ELSE server_stats
                   /\ idx' = idx + 1
                   /\ UNCHANGED <<pc, exc, exit_code>>
    /\ UNCHANGED <<servers, inventory, last_update, webhook, cmd, prev_ips, cycles, report,
                   service_data, target, classified, view>>

\* lines 221-222: the loop is over
UpdateEnd ==
    /\ pc = "fetch"
    /\ idx > Len(servers)
    /\ last_update' = cycles
    /\ pc' = "updated"
    /\ UNCHANGED <<servers, inventory, server_stats, webhook, cmd, idx, exc, outcome,
                   prev_ips, cycles, report, service_data, target, exit_code, classified, view>>

\* the records of server_stats in dict (insertion) order: update_all_stats
\* inserts in the order of self.servers
RECURSIVE ValuesFrom(_, _)
ValuesFrom(d, i) ==
    IF i > Len(servers) THEN <<>>
    ELSE IF servers[i] \in DOMAIN d
         THEN <<d[servers[i]]>> \o ValuesFrom(d, i + 1)
         ELSE ValuesFrom(d, i + 1)

Values(d) == ValuesFrom(d, 1)

\* --------------------------------------------------- CPXMonitor.print_services_table
\* main() dispatches a subcommand whose guard "if not self.servers" returns
StartNoServers ==
    /\ pc = "main"
    /\ servers = <<>>
    /\ \E c \in {"list", "averages", "flag", "track"} : cmd' = c
    /\ pc' = "done"
    /\ exit_code' = NormalExitCode
    /\ UNCHANGED <<servers, inventory, server_stats, last_update, webhook, idx, exc,
                   outcome, prev_ips, cycles, report, service_data, target, classified, view>>

StartList ==
    /\ pc = "main"
    /\ servers # <<>>
    /\ cmd' = "list"
    /\ pc' = "update"
    /\ UNCHANGED <<servers, inventory, server_stats, last_update, webhook, idx, exc,
                   outcome, prev_ips, cycles, report, service_data, target, exit_code, classified, view>>

\* lines 390-403
PrintTable ==
    /\ pc = "updated"
    /\ cmd = "list"
    /\ table_data' = [i \in 1..Len(Values(server_stats)) |->
                        LET s == Values(server_stats)[i]
                        IN <<s.ip, s.service, s.status, s.cpu, s.memory>>]
    /\ pc' = "done"
    /\ exit_code' = NormalExitCode
    /\ UNCHANGED <<servers, inventory, server_stats, last_update, webhook, cmd, idx, exc,
                   outcome, prev_ips, cycles, services_to_scale, posts, service_data, target, classified, view>>

\* --------------------------------------------------- CPXMonitor.show_service_averages
\* faulty variant: the count of a service already seen is not incremented
AvgAccumulateNoCount(data, st) ==
    IF \E j \in 1..Len(data) : data[j].service = st.service
    THEN [j \in 1..Len(data) |->
            IF data[j].service = st.service
            THEN [service |-> data[j].service,
                  cpu_total |-> data[j].cpu_total + IntParse(StripLast(st.cpu)),
                  memory_total |-> data[j].memory_total + IntParse(StripLast(st.memory)),
                  count |-> data[j].count]
            ELSE data[j]]
    ELSE Append(data, [service |-> st.service,
                       cpu_total |-> IntParse(StripLast(st.cpu)),
                       memory_total |-> IntParse(StripLast(st.memory)),
                       count |-> 1])

\* one pass of the loop of lines 415-422 over the record st: service_data is
\* a defaultdict, kept here as the sequence of its items in first-seen order
AvgAccumulate(data, st) ==
    IF \E j \in 1..Len(data) : data[j].service = st.service
    THEN [j \in 1..Len(data) |->
            IF data[j].service = st.service
            THEN [service |-> data[j].service,
                  cpu_total |-> data[j].cpu_total + IntParse(StripLast(st.cpu)),
                  memory_total |-> data[j].memory_total + IntParse(StripLast(st.memory)),
                  count |-> data[j].count + 1]
            ELSE data[j]]
    ELSE Append(data, [service |-> st.service,
                       cpu_total |-> IntParse(StripLast(st.cpu)),
                       memory_total |-> IntParse(StripLast(st.memory)),
                       count |-> 1])

RECURSIVE AvgServiceData(_)
AvgServiceData(vals) ==
    IF vals = <<>> THEN <<>>
    ELSE AvgAccumulate(AvgServiceData(SubSeq(vals, 1, Len(vals) - 1)), vals[Len(vals)])

\* num / den rounded to a whole number, ties to even: what the format
\* specification .1f does to the tenths of the float total / count
RoundHalfEven(num, den) ==
    LET q == num \div den
        r == num % den
    IN IF 2 * r < den THEN q
       ELSE IF 2 * r > den THEN q + 1
       ELSE IF q % 2 = 0 THEN q ELSE q + 1

\* f"{total / count:.1f}%"
FormatAvg(total, count) ==
    LET t == RoundHalfEven(10 * total, count)
    IN FormatNat(t \div 10) \o <<".", Digits[(t % 10) + 1], "%">>

StartAverages ==
    /\ pc = "main"
    /\ servers # <<>>
    /\ cmd' = "averages"
    /\ pc' = "update"
    /\ UNCHANGED <<servers, inventory, server_stats, last_update, webhook, idx, exc,
                   outcome, prev_ips, cycles, report, service_data, target, exit_code,
                   classified, view>>

\* lines 413-438
ShowAverages ==
    /\ pc = "updated"
    /\ cmd = "averages"
    /\ service_data' = AvgServiceData(Values(server_stats))
    /\ table_data' = [j \in 1..Len(service_data') |->
                        LET d == service_data'[j]
                        IN <<d.service, FormatAvg(d.cpu_total, d.count),
                             FormatAvg(d.memory_total, d.count)>>]
    /\ pc' = "done"
    /\ exit_code' = NormalExitCode
    /\ UNCHANGED <<servers, inventory, server_stats, last_update, webhook, cmd, idx, exc,
                   outcome, prev_ips, cycles, services_to_scale, posts, target, classified, view>>

\* --------------------------------------------------- CPXMonitor.flag_underprovisioned_services
\* lines 448-454: healthy_counts is a defaultdict(int) that gets a key only at
\* "healthy_counts[service] += 1"; kept as the sequence of its items
CountHealthy(counts, st) ==
    IF st.status # "Healthy" THEN counts
    ELSE IF \E j \in 1..Len(counts) : counts[j].service = st.service
    THEN [j \in 1..Len(counts) |->
            IF counts[j].service = st.service
            THEN [service |-> counts[j].service, count |-> counts[j].count + 1]
            ELSE counts[j]]
    ELSE Append(counts, [service |-> st.service, count |-> 1])

RECURSIVE HealthyCounts(_)
HealthyCounts(vals) ==
    IF vals = <<>> THEN <<>>
    ELSE CountHealthy(HealthyCounts(SubSeq(vals, 1, Len(vals) - 1)), vals[Len(vals)])

\* faulty variant: only the unhealthy instances of the service are kept
ServiceInstancesUnhealthy(vals, service) ==
    SelectSeq(vals, LAMBDA st : st.service = service /\ st.status = "Unhealthy")

\* line 455: service_instances[service], in dict order
ServiceInstances(vals, service) ==
    SelectSeq(vals, LAMBDA st : st.service = service)

\* f"Only {count} healthy" if count < 2 else "OK"
HealthNote(count) ==
    IF count < Floor THEN <<"Only ", FormatNat(count), " healthy">> ELSE <<"OK">>

\* lines 462-470: the rows of one service
FlagRows(vals, service, count) ==
    LET instances == ServiceInstances(vals, service)
    IN [i \in 1..Len(instances) |->
          <<service, instances[i].ip, instances[i].status, instances[i].cpu,
            instances[i].memory, HealthNote(count)>>]

\* lines 458-470: the loop over healthy_counts.items()
RECURSIVE FlagTable(_, _)
FlagTable(vals, counts) ==
    IF counts = <<>> THEN <<>>
    ELSE LET c == counts[Len(counts)]
         IN FlagTable(vals, SubSeq(counts, 1, Len(counts) - 1))
            \o (IF c.count < Floor THEN FlagRows(vals, c.service, c.count) ELSE <<>>)

StartFlag ==
    /\ pc = "main"
    /\ servers # <<>>
    /\ cmd' = "flag"
    /\ pc' = "update"
    /\ UNCHANGED <<servers, inventory, server_stats, last_update, webhook, idx, exc,
                   outcome, prev_ips, cycles, report, service_data, target, exit_code,
                   classified, view>>

\* lines 448-482, up to the two dispatches
FlagDetect ==
    /\ pc = "updated"
    /\ cmd = "flag"
    /\ service_data' = HealthyCounts(Values(server_stats))
    /\ table_data' = FlagTable(Values(server_stats), service_data')
    /\ IF table_data' # <<>>
       THEN pc' = "alert" /\ UNCHANGED exit_code
       ELSE pc' = "done" /\ exit_code' = NormalExitCode
    /\ UNCHANGED <<servers, inventory, server_stats, last_update, webhook, cmd, idx, exc,
                   outcome, prev_ips, cycles, services_to_scale, posts, target,
                   classified, view>>

\* --------------------------------------------------- CPXMonitor.send_slack_alert
\* line 232
UnhealthyRows(rows) == SelectSeq(rows, LAMBDA row : row[3] = "Unhealthy")

\* lines 241-243: service_groups, as the sequence of its items
GroupRow(groups, row) ==
    IF \E j \in 1..Len(groups) : groups[j].service = row[1]
    THEN [j \in 1..Len(groups) |->
            IF groups[j].service = row[1]
            THEN [service |-> groups[j].service,
                  instances |-> Append(groups[j].instances, row[2])]
            ELSE groups[j]]
    ELSE Append(groups, [service |-> row[1], instances |-> <<row[2]>>])

RECURSIVE ServiceGroups(_)
ServiceGroups(rows) ==
    IF rows = <<>> THEN <<>>
    ELSE GroupRow(ServiceGroups(SubSeq(rows, 1, Len(rows) - 1)), rows[Len(rows)])

\* faulty variant: no try/except around the post, a failed delivery propagates
SendSlackAlertUncaught ==
    /\ pc = "alert"
    /\ webhook' \in {"set", "unset"}
    /\ IF webhook' = "set" /\ UnhealthyRows(table_data) # <<>>
       THEN \E res \in PostResults :
               /\ posts' = Append(posts, [kind |-> "alert",
                                          body |-> ServiceGroups(UnhealthyRows(table_data)),
                                          result |-> res])
               /\ IF res = "ok"
                  THEN pc' = "remediate" /\ UNCHANGED <<exc, exit_code>>
                  ELSE pc' = "crashed" /\ exc' = res /\ exit_code' = 1
       ELSE pc' = "remediate" /\ UNCHANGED <<posts, exc, exit_code>>
    /\ UNCHANGED <<servers, inventory, server_stats, last_update, cmd, idx,
                   outcome, prev_ips, cycles, table_data, service_data,
                   services_to_scale, target, classified, view>>

\* lines 224-305: line 226 looks the webhook URL up in the environment, which
\* does not change afterwards; the try/except of lines 295-305 swallows every
\* failure of the post
SendSlackAlert ==
    /\ pc = "alert"
    /\ webhook' \in {"set", "unset"}
    /\ IF webhook' = "set" /\ UnhealthyRows(table_data) # <<>>
       THEN \E res \in PostResults :
               posts' = Append(posts, [kind |-> "alert",
                                       body |-> ServiceGroups(UnhealthyRows(table_data)),
                                       result |-> res])
       ELSE UNCHANGED posts
    /\ pc' = "remediate"
    /\ UNCHANGED <<servers, inventory, server_stats, last_update, cmd, idx, exc,
                   outcome, prev_ips, cycles, table_data, service_data,
                   services_to_scale, target, exit_code, classified, view>>

\* --------------------------------------------------- CPXMonitor.auto_remediate_services
\* lines 318-319 raise ValueError on a row whose cpu or memory is no number
\* once the percent signs are stripped
RemediateRaises(rows) ==
    \E i \in 1..Len(rows) :
        \/ IntParse(RStripPercent(rows[i][4])) = ValueError
        \/ IntParse(RStripPercent(rows[i][5])) = ValueError

\* faulty variant: the trigger itself already counts as high
RECURSIVE ServicesToScaleInclusive(_)
ServicesToScaleInclusive(rows) ==
    IF rows = <<>> THEN {}
    ELSE LET row    == rows[Len(rows)]
             cpu    == IntParse(RStripPercent(row[4]))
             memory == IntParse(RStripPercent(row[5]))
             rest   == ServicesToScaleInclusive(SubSeq(rows, 1, Len(rows) - 1))
         IN IF cpu >= ScaleTrigger \/ memory >= ScaleTrigger
            THEN rest \cup {row[1]} ELSE rest

\* lines 314-324: the loop that fills the set services_to_scale
RECURSIVE ServicesToScale(_)
ServicesToScale(rows) ==
    IF rows = <<>> THEN {}
    ELSE LET row    == rows[Len(rows)]
             cpu    == IntParse(RStripPercent(row[4]))
             memory == IntParse(RStripPercent(row[5]))
             rest   == ServicesToScale(SubSeq(rows, 1, Len(rows) - 1))
         IN IF cpu > ScaleTrigger \/ memory > ScaleTrigger
            THEN rest \cup {row[1]} ELSE rest

\* lines 307-380
AutoRemediate ==
    /\ pc = "remediate"
    /\ IF webhook # "set"
       THEN /\ pc' = "done"
            /\ exit_code' = NormalExitCode
            /\ UNCHANGED <<services_to_scale, posts, exc>>
       ELSE IF RemediateRaises(table_data)
       THEN /\ pc' = "crashed"
            /\ exc' = "ValueError"
            /\ exit_code' = 1
            /\ UNCHANGED <<services_to_scale, posts>>
       ELSE /\ services_to_scale' = ServicesToScale(table_data)
            /\ IF services_to_scale' # {}
               THEN \E res \in PostResults :
                       posts' = Append(posts, [kind |-> "scaling",
                                               body |-> services_to_scale',
                                               result |-> res])
               ELSE UNCHANGED posts
            /\ pc' = "done"
            /\ exit_code' = NormalExitCode
            /\ UNCHANGED exc
    /\ UNCHANGED <<servers, inventory, server_stats, last_update, webhook, cmd, idx,
                   outcome, prev_ips, cycles, table_data, service_data, target,
                   classified, view>>

\* --------------------------------------------------- CPXMonitor.track_service
\* lines 503-504
TrackInstances(vals, service_name) ==
    SelectSeq(vals, LAMBDA st : st.service = service_name)

\* lines 484-498: the guard, and the installation of signal_handler
StartTrack ==
    /\ pc = "main"
    /\ servers # <<>>
    /\ cmd' = "track"
    /\ target' \in TrackTargets
    /\ pc' = "update"
    /\ UNCHANGED <<servers, inventory, server_stats, last_update, webhook, idx, exc,
                   outcome, prev_ips, cycles, report, service_data, exit_code,
                   classified, view>>

\* faulty variant: no break, an iteration without instances sleeps as well
TrackReportNoBreak ==
    /\ pc = "updated"
    /\ cmd = "track"
    /\ LET service_instances == TrackInstances(Values(server_stats), target)
       IN table_data' = [i \in 1..Len(service_instances) |->
                           LET st == service_instances[i]
                           IN <<cycles, st.ip, st.status, st.cpu, st.memory>>]
    /\ pc' = "sleep"
    /\ UNCHANGED <<servers, inventory, server_stats, last_update, webhook, cmd, idx, exc,
                   outcome, prev_ips, cycles, service_data, services_to_scale,
                   posts, target, exit_code, classified, view>>

\* lines 503-525: the rest of one iteration, up to the sleep; the break of
\* line 508 leaves the loop, track_service and main() return
TrackReport ==
    /\ pc = "updated"
    /\ cmd = "track"
    /\ LET service_instances == TrackInstances(Values(server_stats), target)
       IN IF service_instances = <<>>
          THEN /\ pc' = "done"
               /\ exit_code' = NormalExitCode
               /\ UNCHANGED table_data
          ELSE /\ table_data' = [i \in 1..Len(service_instances) |->
                                   LET st == service_instances[i]
                                   IN <<cycles, st.ip, st.status, st.cpu, st.memory>>]
               /\ pc' = "sleep"
               /\ UNCHANGED exit_code
    /\ UNCHANGED <<servers, inventory, server_stats, last_update, webhook, cmd, idx, exc,
                   outcome, prev_ips, cycles, service_data, services_to_scale, posts,
                   target, classified, view>>

\* line 527 and the next turn of "while True"; table_data is rebuilt there
TrackSleep ==
    /\ pc = "sleep"
    /\ cmd = "track"
    /\ cycles < MaxCycles
    /\ table_data' = <<>>
    /\ pc' = "update"
    /\ UNCHANGED <<servers, inventory, server_stats, last_update, webhook, cmd, idx, exc,
                   outcome, prev_ips, cycles, service_data, services_to_scale, posts,
                   target, exit_code, classified, view>>

\* lines 493-496: SIGINT runs signal_handler between two bytecodes of the main
\* thread, wherever it is; sys.exit(0) raises SystemExit, which the
\* "except KeyboardInterrupt" of line 528 does not catch
signal_handler ==
    /\ cmd = "track"
    /\ pc \in {"update", "fetch", "updated", "sleep"}
    /\ exc' = "SystemExit"
    /\ exit_code' = SysExitCode
    /\ pc' = "exited"
    /\ UNCHANGED <<servers, inventory, server_stats, last_update, webhook, cmd, idx,
                   outcome, prev_ips, cycles, report, service_data, target, classified,
                   view>>

\* --------------------------------------------------- TerminalDashboard
\* lines 89-97: one pass of the loop over the record st
StatsAccumulate(data, st) ==
    LET healthy == IF st.status = "Healthy" THEN 1 ELSE 0
    IN IF \E j \in 1..Len(data) : data[j].service = st.service
       THEN [j \in 1..Len(data) |->
               IF data[j].service = st.service
               THEN [service |-> data[j].service,
                     healthy |-> data[j].healthy + healthy,
                     cpu |-> data[j].cpu + IntParse(StripLast(st.cpu)),
                     memory |-> data[j].memory + IntParse(StripLast(st.memory)),
                     total |-> data[j].total + 1]
               ELSE data[j]]
       ELSE Append(data, [service |-> st.service,
                          healthy |-> healthy,
                          cpu |-> IntParse(StripLast(st.cpu)),
                          memory |-> IntParse(StripLast(st.memory)),
                          total |-> 1])

RECURSIVE StatsServiceData(_)
StatsServiceData(vals) ==
    IF vals = <<>> THEN <<>>
    ELSE StatsAccumulate(StatsServiceData(SubSeq(vals, 1, Len(vals) - 1)),
                         vals[Len(vals)])

\* lines 100-105: the colour of healthy_pct = healthy / total * 100
HealthColour(healthy, total) ==
    IF 100 * healthy > 75 * total THEN "green"
    ELSE IF 100 * healthy > 50 * total THEN "yellow" ELSE "red"

\* _create_stats_table, lines 77-110
create_stats_table(stats) ==
    IF stats = EmptyDict THEN <<<<"No data available">>>>
    ELSE LET data == StatsServiceData(Values(stats))
         IN [j \in 1..Len(data) |->
               <<data[j].service,
                 HealthColour(data[j].healthy, data[j].total),
                 data[j].healthy, data[j].total,
                 FormatAvg(data[j].cpu, data[j].total),
                 FormatAvg(data[j].memory, data[j].total)>>]

\* _create_alerts_panel, lines 112-128
create_alerts_panel(stats) ==
    IF stats = EmptyDict THEN <<"Waiting for first data update...">>
    ELSE LET alerts == SelectSeq(Values(stats), LAMBDA st : st.status = "Unhealthy")
         IN IF alerts = <<>> THEN <<"No active alerts">>
            ELSE [i \in 1..(IF Len(alerts) < 5 THEN Len(alerts) ELSE 5) |->
                    <<alerts[i].service, alerts[i].ip, alerts[i].cpu, alerts[i].memory>>]

\* generate_dashboard, lines 130-150
generate_dashboard(stats) ==
    <<create_stats_table(stats), create_alerts_panel(stats)>>

\* main() line 567 and start_live_view line 155: no guard on self.servers
StartDashboard ==
    /\ pc = "main"
    /\ cmd' = "dashboard"
    /\ view' = generate_dashboard(server_stats)
    /\ pc' = "update"
    /\ UNCHANGED <<servers, inventory, server_stats, last_update, webhook, idx, exc,
                   outcome, prev_ips, cycles, report, service_data, target, exit_code,
                   classified>>

\* lines 158-161 after _refresh_data returned True
DashboardRender ==
    /\ pc = "updated"
    /\ cmd = "dashboard"
    /\ service_data' = StatsServiceData(Values(server_stats))
    /\ view' = generate_dashboard(server_stats)
    /\ pc' = "sleep"
    /\ UNCHANGED <<servers, inventory, server_stats, last_update, webhook, cmd, idx, exc,
                   outcome, prev_ips, cycles, report, target, exit_code, classified>>

\* lines 73-75 and 158-159: _refresh_data caught the exception
DashboardFailed ==
    /\ pc = "refresh_failed"
    /\ view' = <<"Failed to update data">>
    /\ pc' = "sleep"
    /\ UNCHANGED <<servers, inventory, server_stats, last_update, webhook, cmd, idx, exc,
                   outcome, prev_ips, cycles, report, service_data, target, exit_code,
                   classified>>

\* line 162 and the next turn of "while True"
DashboardSleep ==
    /\ pc = "sleep"
    /\ cmd = "dashboard"
    /\ cycles < MaxCycles
    /\ view' = <<>>
    /\ service_data' = <<>>
    /\ pc' = "update"
    /\ UNCHANGED <<servers, inventory, server_stats, last_update, webhook, cmd, idx, exc,
                   outcome, prev_ips, cycles, report, target, exit_code, classified>>

\* lines 163-165: SIGINT raises KeyboardInterrupt in the main thread, wherever
\* it is inside the loop; the loop breaks and main() returns
DashboardInterrupt ==
    /\ cmd = "dashboard"
    /\ pc \in {"update", "fetch", "updated", "refresh_failed", "sleep"}
    /\ pc' = "done"
    /\ exit_code' = NormalExitCode
    /\ UNCHANGED <<servers, inventory, server_stats, last_update, webhook, cmd, idx, exc,
                   outcome, prev_ips, cycles, report, service_data, target, classified,
                   view>>

\* --------------------------------------------------- the inventory endpoint
\* one instance joins or leaves the fleet after the list was fetched; the
\* endpoint is external, so this is a step of the environment, taken between
\* two refresh cycles, during the sleep of a loop
InventoryChange ==
    /\ pc = "sleep"
    /\ inventory = servers
    /\ inventory' \in {inv \in Inventories :
                         Len(inv) - Len(inventory) \in {-1, 1}}
    /\ UNCHANGED <<servers, server_stats, last_update, webhook, cmd, pc, idx,
                   exc, outcome, prev_ips, cycles, report, service_data,
                   target, exit_code, classified, view>>

Next ==
    \/ UpdateBegin
    \/ UpdateFetch
    \/ UpdateEnd
    \/ StartNoServers
    \/ StartList
    \/ PrintTable
    \/ StartAverages
    \/ ShowAverages
    \/ StartFlag
    \/ FlagDetect
    \/ SendSlackAlert
    \/ AutoRemediate
    \/ StartTrack
    \/ TrackReport
    \/ TrackSleep
    \/ signal_handler
    \/ StartDashboard
    \/ DashboardRender
    \/ DashboardFailed
    \/ DashboardSleep
    \/ DashboardInterrupt
    \/ InventoryChange

Spec == Init /\ [][Next]_vars

\* --------------------------------------------------- direct calls
\* a caller hands fetch_server_stats one well-formed response, any cpu and
\* memory percentage, as test_fetch_server_stats does
InitClassify ==
    /\ inventory = <<1>>
    /\ servers = <<1>>
    /\ server_stats = EmptyDict
    /\ last_update = 0
    /\ webhook = "unread"
    /\ cmd = ""
    /\ pc = "call"
    /\ idx = 0
    /\ exc = ""
    /\ outcome = EmptyDict
    /\ prev_ips = {}
    /\ cycles = 0
    /\ table_data = <<>>
    /\ service_data = <<>>
    /\ services_to_scale = {}
    /\ posts = <<>>
    /\ target = ""
    /\ exit_code = -1
    /\ classified = EmptyDict
    /\ view = <<>>

FetchDirect ==
    /\ pc = "call"
    /\ \E cpu \in 0..MaxPercent, memory \in 0..MaxPercent :
          classified' = fetch_server_stats(servers[1],
                            [kind |-> "ok", service |-> "AuthService",
                             cpu |-> Pct(cpu), memory |-> Pct(memory)]).stats
    /\ pc' = "returned"
    /\ UNCHANGED <<servers, inventory, server_stats, last_update, webhook, cmd, idx, exc,
                   outcome, prev_ips, cycles, report, service_data, target,
                   exit_code, view>>

NextClassify == FetchDirect

SpecClassify == InitClassify /\ [][NextClassify]_vars

\* (cpu, memory) pairs of the rows handed to auto_remediate_services
ScaleLoads == {<<80, 80>>, <<81, 50>>, <<50, 81>>}

ScaleRows ==
    {<<s, ip, Classify(l[1], l[2]), Pct(l[1]), Pct(l[2]), HealthNote(1)>> :
        s \in Services, ip \in 1..2, l \in ScaleLoads}

\* a caller hands auto_remediate_services any list of rows, repeated rows and
\* any order included
InitRemediate ==
    /\ inventory = <<1, 2>>
    /\ servers = <<1, 2>>
    /\ server_stats = EmptyDict
    /\ last_update = 0
    /\ webhook \in {"set", "unset"}
    /\ cmd = "flag"
    /\ pc = "remediate"
    /\ idx = 0
    /\ exc = ""
    /\ outcome = EmptyDict
    /\ prev_ips = {}
    /\ cycles = 0
    /\ table_data \in UNION {[1..n -> ScaleRows] : n \in 0..MaxEntries}
    /\ service_data = <<>>
    /\ services_to_scale = {}
    /\ posts = <<>>
    /\ target = ""
    /\ exit_code = -1
    /\ classified = EmptyDict
    /\ view = <<>>

NextRemediate == AutoRemediate

SpecRemediate == InitRemediate /\ [][NextRemediate]_vars

\* =================================================================== claims
\* the percentage a well-formed string "<n>%" stands for
PercentOf(s) == CHOOSE n \in 0..(MaxPercent + 1) : Pct(n) = s

\* C1: for every metrics response with integer cpu and memory percentages in
\* 0..100, fetch_server_stats stamps status "Healthy" if and only if cpu < 90
\* and memory < 90, and "Unhealthy" otherwise.
C1_HealthyIffBothBelow90 ==
    pc = "returned" =>
        /\ classified # EmptyDict
        /\ classified.status \in {"Healthy", "Unhealthy"}
        /\ classified.status = "Healthy" <=>
              (PercentOf(classified.cpu) < 90 /\ PercentOf(classified.memory) < 90)

\* the boundary: 89 on one field is healthy-compatible, 90 on the other flips
C1_Witness ==
    /\ pc = "returned"
    /\ classified.cpu = Pct(89)
    /\ classified.memory = Pct(90)
    /\ classified.status = "Unhealthy"

\* C8: the set auto_remediate_services builds is exactly the set of service
\* names with at least one row whose cpu > 80 or memory > 80, whatever the
\* order and the repetitions of the rows; a scaling notification is posted
\* only when that set is non-empty, once, and lists each name once.
C8_RemediationSet ==
    LET hot == {table_data[i][1] : i \in
                  {i \in 1..Len(table_data) :
                     \/ PercentOf(table_data[i][4]) > 80
                     \/ PercentOf(table_data[i][5]) > 80}}
        scaling == SelectSeq(posts, LAMBDA m : m.kind = "scaling")
    IN (pc = "done" /\ cmd = "flag" /\ servers # <<>>) =>
          /\ webhook = "set" => services_to_scale = hot
          /\ Len(scaling) <= 1
          /\ Len(scaling) = 1 <=> (webhook = "set" /\ hot # {})
          /\ \A i \in 1..Len(scaling) : scaling[i].body = hot

\* two rows of the same service, both over the trigger, give one name
C8_Witness ==
    /\ pc = "done"
    /\ Len(table_data) = 3
    /\ table_data[1][1] = "AuthService" /\ table_data[1][4] = Pct(81)
    /\ table_data[2] = table_data[1]
    /\ table_data[3][1] = "AuthService" /\ table_data[3][5] = Pct(81)
    /\ services_to_scale = {"AuthService"}
    /\ Len(posts) = 1

\* the instances whose fetch of the current cycle failed in transport, by
\* timeout or with a non-2xx status / returned a well-formed body / returned
\* a body whose cpu or memory is absent or no percentage
FailedIps == {ip \in DOMAIN outcome : outcome[ip].kind = "failed"}

OkIps == {ip \in DOMAIN outcome : outcome[ip] \in OkResponses}

MalformedIps == {ip \in DOMAIN outcome : outcome[ip] \in MalformedResponses}

Listed == {servers[i] : i \in 1..Len(servers)}

\* C2: a refresh cycle in which fetches fail by transport error, timeout or
\* non-2xx response does not raise because of them, and when it completes
\* the snapshot holds exactly the instances whose fetch succeeded, N minus
\* the number of failed ones.
C2_FailedFetchSkipped ==
    /\ (pc \in {"crashed", "refresh_failed"} /\ posts = <<>>) => MalformedIps # {}
    /\ (pc = "fetch" /\ MalformedIps = {}) =>
          /\ exc = ""
          /\ DOMAIN outcome = {servers[i] : i \in 1..(idx - 1)}
    /\ pc = "updated" =>
          /\ exc = ""
          /\ DOMAIN outcome = Listed
          /\ DOMAIN server_stats = Listed \ FailedIps
          /\ Cardinality(DOMAIN server_stats) = Len(servers) - Cardinality(FailedIps)

\* one of three instances fails, the other two are recorded
C2_Witness ==
    /\ pc = "updated"
    /\ Len(servers) = 3
    /\ FailedIps = {2}
    /\ DOMAIN server_stats = {1, 3}

\* C3: an instance whose response has a missing or unparsable cpu or memory
\* field is omitted like a failed fetch, and the refresh cycle does not raise
\* to its caller.
C3_MalformedOmittedNoRaise ==
    /\ MalformedIps # {} => (pc \notin {"crashed", "refresh_failed"} /\ exc = "")
    /\ pc = "updated" => DOMAIN server_stats = Listed \ (FailedIps \cup MalformedIps)

\* C4: when a refresh cycle has completed, the snapshot holds exactly the
\* records fetched successfully in that cycle: each record is the body the
\* instance returned in this cycle, and an instance that failed in this cycle
\* is absent even if the previous snapshot held it.
C4_SnapshotReplaced ==
    pc = "updated" =>
        /\ DOMAIN server_stats = OkIps
        /\ \A ip \in FailedIps \cap prev_ips : ip \notin DOMAIN server_stats
        /\ \A ip \in DOMAIN server_stats :
              /\ server_stats[ip].ip = ip
              /\ server_stats[ip].service = outcome[ip].service
              /\ server_stats[ip].cpu = outcome[ip].cpu
              /\ server_stats[ip].memory = outcome[ip].memory

\* the second cycle of a run: instance 1 answered in the first cycle and
\* failed in the second
C4_Witness ==
    /\ pc = "updated"
    /\ cycles = 2
    /\ 1 \in prev_ips
    /\ 1 \in FailedIps
    /\ 1 \notin DOMAIN server_stats
    /\ server_stats # EmptyDict

\* the services of the snapshot and their healthy-instance counts
SnapshotServices == {server_stats[ip].service : ip \in DOMAIN server_stats}

InstancesOf(service) ==
    {ip \in DOMAIN server_stats : server_stats[ip].service = service}

HealthyOf(service) ==
    Cardinality({ip \in InstancesOf(service) : server_stats[ip].status = "Healthy"})

FlagReported == cmd = "flag" /\ pc \in {"alert", "remediate", "done"} /\ servers # <<>>

\* C5: the services named in the underprovisioned entries are exactly the
\* services of the snapshot whose healthy-instance count is below the floor,
\* those with zero healthy instances included.
C5_FlaggedServicesExact ==
    FlagReported =>
        {table_data[i][1] : i \in 1..Len(table_data)}
            = {service \in SnapshotServices : HealthyOf(service) < 2}

\* C6: for every service in the underprovisioned entries, the entries of that
\* service are one per instance of the service in the snapshot, healthy and
\* unhealthy alike, each with the instance's own status, cpu and memory and
\* the reason "Only k healthy", k the service's healthy-instance count.
C6_EntriesPerInstance ==
    FlagReported =>
        \A service \in {table_data[i][1] : i \in 1..Len(table_data)} :
            LET rows == SelectSeq(table_data, LAMBDA row : row[1] = service)
            IN /\ {rows[i][2] : i \in 1..Len(rows)} = InstancesOf(service)
               /\ Len(rows) = Cardinality(InstancesOf(service))
               /\ \A i \in 1..Len(rows) :
                     /\ rows[i][3] = server_stats[rows[i][2]].status
                     /\ rows[i][4] = server_stats[rows[i][2]].cpu
                     /\ rows[i][5] = server_stats[rows[i][2]].memory
                     /\ rows[i][6] = <<"Only ", FormatNat(HealthyOf(service)), " healthy">>

\* one healthy instance among three of the same service: three entries, each
\* "Only 1 healthy"
C6_Witness ==
    /\ FlagReported
    /\ Len(table_data) = 3
    /\ \A i \in 1..3 : /\ table_data[i][1] = "AuthService"
                       /\ table_data[i][6] = <<"Only ", "1", " healthy">>
    /\ table_data[1][3] = "Unhealthy"
    /\ table_data[2][3] = "Healthy"
    /\ table_data[3][3] = "Unhealthy"

\* the sum of the integer percentages the instances in ips reported
RECURSIVE SumCpu(_)
SumCpu(ips) ==
    IF ips = {} THEN 0
    ELSE LET ip == CHOOSE i \in ips : TRUE
         IN PercentOf(server_stats[ip].cpu) + SumCpu(ips \ {ip})

RECURSIVE SumMemory(_)
SumMemory(ips) ==
    IF ips = {} THEN 0
    ELSE LET ip == CHOOSE i \in ips : TRUE
         IN PercentOf(server_stats[ip].memory) + SumMemory(ips \ {ip})

\* the number of tenths a string "<d>.<d>%" shows
ShownTenths(s) ==
    10 * PercentOf(Append(SubSeq(s, 1, Len(s) - 3), "%"))
        + (CHOOSE d \in 0..9 : Digits[d + 1] = s[Len(s) - 1])

\* the shown average is total / n to the nearest tenth
NearestTenth(s, total, n) ==
    LET d == 10 * total - ShownTenths(s) * n
    IN 2 * d <= n /\ 2 * (0 - d) <= n

\* C7: every per-service rollup, of the averages report and of the dashboard
\* table, is of a service with at least one instance in the snapshot, one
\* rollup per such service; its instance count n is the number of snapshot
\* records of that service and its average cpu and memory are the sums of
\* those records' percentages divided by n; an empty snapshot yields none.
C7_RollupAverages ==
    /\ (cmd = "averages" /\ pc = "done" /\ servers # <<>>) =>
          /\ Len(service_data) = Cardinality(SnapshotServices)
          /\ Len(table_data) = Len(service_data)
          /\ \A j \in 1..Len(service_data) :
                LET d   == service_data[j]
                    ips == InstancesOf(d.service)
                IN /\ ips # {}
                   /\ d.count = Cardinality(ips)
                   /\ d.cpu_total = SumCpu(ips)
                   /\ d.memory_total = SumMemory(ips)
                   /\ table_data[j][1] = d.service
                   /\ NearestTenth(table_data[j][2], SumCpu(ips), Cardinality(ips))
                   /\ NearestTenth(table_data[j][3], SumMemory(ips), Cardinality(ips))
    /\ (cmd = "dashboard" /\ pc = "sleep" /\ Len(view) = 2 /\ server_stats # EmptyDict) =>
          /\ Len(view[1]) = Cardinality(SnapshotServices)
          /\ \A j \in 1..Len(view[1]) :
                LET row == view[1][j]
                    ips == InstancesOf(row[1])
                IN /\ ips # {}
                   /\ row[4] = Cardinality(ips)
                   /\ row[3] = HealthyOf(row[1])
                   /\ NearestTenth(row[5], SumCpu(ips), Cardinality(ips))
                   /\ NearestTenth(row[6], SumMemory(ips), Cardinality(ips))

\* cpu 70 and 50, memory 50 and 30 of one service: 60.0 and 40.0, total 2
C7_Witness ==
    /\ cmd = "averages"
    /\ pc = "done"
    /\ \E j \in 1..Len(service_data) :
          /\ service_data[j].count = 2
          /\ service_data[j].cpu_total = 120
          /\ service_data[j].memory_total = 80
          /\ table_data[j][2] = <<"6", "0", ".", "0", "%">>
          /\ table_data[j][3] = <<"4", "0", ".", "0", "%">>
          /\ \E a, b \in InstancesOf(service_data[j].service) :
                /\ server_stats[a].cpu = Pct(70) /\ server_stats[a].memory = Pct(50)
                /\ server_stats[b].cpu = Pct(50) /\ server_stats[b].memory = Pct(30)

AlertPosts == SelectSeq(posts, LAMBDA m : m.kind = "alert")

ScalingPosts == SelectSeq(posts, LAMBDA m : m.kind = "scaling")

\* C9: once detection has found entries, neither dispatch raises to the
\* caller of flag_underprovisioned_services whatever the delivery does
\* (transport error, non-2xx, no webhook URL); the alert is posted at most
\* once, and after it auto_remediate_services runs, which returns normally.
C9_DispatchFireAndForget ==
    [][/\ pc = "alert" =>
             /\ pc' = "remediate"
             /\ exc' = ""
             /\ Len(AlertPosts') <= 1
             /\ webhook' = "unset" => posts' = posts
       /\ pc = "remediate" =>
             /\ pc' = "done"
             /\ exc' = ""
             /\ exit_code' = NormalExitCode
             /\ AlertPosts' = AlertPosts
             /\ Len(ScalingPosts') <= 1]_vars

\* the alert post failed, the scaling post was made all the same and failed
\* too, and the command returned
C9_Witness ==
    /\ cmd = "flag"
    /\ pc = "done"
    /\ exc = ""
    /\ Len(posts) = 2
    /\ posts[1].kind = "alert" /\ posts[1].result = "HTTPError"
    /\ posts[2].kind = "scaling" /\ posts[2].result = "ConnectionError"

\* no record of the snapshot is of the tracked service
NoMatch == \A ip \in DOMAIN server_stats : server_stats[ip].service # target

\* C10: track_service ends at the first completed cycle whose snapshot has no
\* record of the target service, by returning without a sleep or a further
\* cycle; a stop by interrupt leaves through SystemExit instead, so the two
\* differ in how control leaves track_service.
C10_TrackEndsOnNoMatch ==
    [][/\ (cmd = "track" /\ pc = "updated" /\ NoMatch /\ pc' # "exited") =>
             /\ pc' = "done"
             /\ exc' = ""
             /\ cycles' = cycles
             /\ server_stats' = server_stats
       /\ (cmd = "track" /\ pc = "updated" /\ ~NoMatch) => pc' \in {"sleep", "exited"}
       /\ (cmd = "track" /\ pc # "done" /\ pc' = "done" /\ servers # <<>>) =>
             (pc = "updated" /\ NoMatch)
       /\ (pc # "exited" /\ pc' = "exited") => exc' = "SystemExit"]_vars

\* the target is absent from the very first cycle, whose snapshot is not
\* empty: the loop has ended by a normal return
C10_Witness ==
    /\ cmd = "track"
    /\ pc = "done"
    /\ cycles = 1
    /\ exc = ""
    /\ server_stats # EmptyDict
    /\ NoMatch

\* C11: in continuous tracking an interrupt takes effect only at a cycle
\* boundary: when the loop has been stopped by an interrupt, the refresh cycle
\* that was last started has run to completion (every listed instance was
\* fetched and line 221 has stamped last_update).
C11_InterruptAtCycleBoundary ==
    (cmd = "track" /\ pc = "exited") =>
        /\ last_update = cycles
        /\ cycles > 0 => DOMAIN outcome = Listed

\* the refresh cycle last started has fetched every listed instance
CycleComplete == DOMAIN outcome = Listed /\ idx > Len(servers)

\* C12: at every point the snapshot a reader of server_stats finds is, by its
\* identifiers, the complete snapshot of the previous cycle (the one the
\* current cycle found when it began) or the complete snapshot of the current
\* cycle, never the empty or half-filled mapping of a cycle in progress or
\* cut short by an exception.
C12_SnapshotNeverPartial ==
    \/ DOMAIN server_stats = prev_ips
    \/ CycleComplete /\ DOMAIN server_stats = OkIps

\* C13: every refresh cycle begun after a successful listing fetches exactly
\* the identifiers the inventory holds when the cycle begins, so an instance
\* added or removed after startup is in, or gone from, the next snapshot.
C13_CycleFetchesCurrentInventory ==
    [][(pc = "update" /\ pc' = "fetch" /\ servers # <<>>) => servers' = inventory]_vars

====
